---- MODULE Spec2Model ----
(***************************************************************************)
(* Edge API gateway: provider fallback chain with edge cache (/data,       *)
(* /weather), query validation (/weather, /weather/forecast), and the      *)
(* stream proxies (/video, /camera/stream, /webcam/stream) with the bridge  *)
(* control endpoint (/camera/ptz, /webcam/ptz).                             *)
(*                                                                         *)
(* Two entry points exist in the sources and are both modelled:            *)
(*   entry = "index"    the default export `fetch` of src/src/index.ts     *)
(*   entry = "handlers" the exported route handlers handleData             *)
(*                      (src/test/routes.spec.ts), handleWeatherNow and    *)
(*                      handleWeatherForecast (src/unnamed/part_003),      *)
(*                      handleVideo (part_002), handleCameraStream and     *)
(*                      handleCameraPtz (part_000), handleWebcamStream     *)
(*                      and handleWebcamPtz (part_001)                     *)
(* One step of the model is the code a handler runs between two awaits.    *)
(***************************************************************************)
EXTENDS Integers, Sequences, FiniteSets, TLC

VARIABLES entry, now, cache, puts, req, px

vars == <<entry, now, cache, puts, req, px>>

\* ------------------------------------------------------------------ bounds
NumRequests == 2
TickSeconds == 60
MaxTime == 60

Requests == 1..NumRequests

\* ------------------------------------------------------- program constants
TTL_DATA == 30
TTL_WEATHER == 120
TTL_FORECAST == 900

NULL == "null"

\* ------------------------------------------------------------------ inputs
\* Raw query-string values as URLSearchParams.get returns them; NULL is an
\* absent parameter, " " is what `lat=+` or `lat=%20` decodes to.
LatStrs == {NULL, " ", "abc", "45", "91"}
LonStrs == {"", "10", "181"}
QStrs == {NULL, "Prague"}
\* `days` of /weather/forecast: absent, blank, not a number, below, inside
\* and above the range
DaysStrs == {NULL, " ", "abc", "0", "5", "20"}

Url(path, q, lat, lon) ==
  [path |-> path, q |-> q, lat |-> lat, lon |-> lon, days |-> NULL]
NoUrl == Url("none", NULL, NULL, NULL)

DataUrls == {Url("/data", NULL, NULL, NULL)}
WeatherUrls == {Url("/weather", NULL, la, lo) : la \in LatStrs, lo \in LonStrs}
ForecastUrls == {[Url("/weather/forecast", q, la, lo) EXCEPT !.days = d] :
                   q \in QStrs, la \in {NULL, "45", "91"}, lo \in {NULL, "10", "181"},
                   d \in DaysStrs}

\* JavaScript truthiness of a string | null
Truthy(s) == s # NULL /\ s # ""

\* Number(str): whitespace-only and empty strings convert to 0, decimal
\* literals to their value, anything else to NaN (finite = FALSE).
Num(v) == [finite |-> TRUE, val |-> v]
NaN == [finite |-> FALSE, val |-> 0]
Number(s) ==
  CASE s = "" -> Num(0)
    [] s = " " -> Num(0)
    [] s = "0" -> Num(0)
    [] s = "5" -> Num(5)
    [] s = "10" -> Num(10)
    [] s = "20" -> Num(20)
    [] s = "45" -> Num(45)
    [] s = "91" -> Num(91)
    [] s = "-91" -> Num(0 - 91)
    [] s = "181" -> Num(181)
    [] OTHER -> NaN

IsFinite(n) == n.finite

validLat(lat) == lat >= 0 - 90 /\ lat <= 90
validLon(lon) == lon >= 0 - 180 /\ lon <= 180

\* --------------------------------------------------------------- responses
NoBody == [kind |-> "none"]
Response(status, ctype, cc, body) ==
  [status |-> status, ctype |-> ctype, cc |-> cc, body |-> body]
NoResp == Response(0, "", "", NoBody)

\* json(data, status, headers) / new Response(JSON.stringify(..), {..})
json(data, status, cc) == Response(status, "application/json", cc, data)

ErrorBody(msg) == [kind |-> "error", error |-> msg]
UpstreamErrorBody(msg, status) == [kind |-> "error", error |-> msg, status |-> status]

badReq(msg) == json(ErrorBody(msg), 400, "")

CacheControl(ttl) ==
  CASE ttl = TTL_DATA -> "public, max-age=30"
    [] ttl = TTL_WEATHER -> "public, max-age=120"
    [] ttl = TTL_FORECAST -> "public, max-age=900"
    [] OTHER -> ""

\* max-age the edge cache reads back from a stored response's Cache-Control
MaxAgeOf(cc) ==
  CASE cc = "public, max-age=30" -> 30
    [] cc = "public, max-age=120" -> 120
    [] cc = "public, max-age=900" -> 900
    [] OTHER -> 0

\* ---------------------------------------------------------------- upstream
\* A parsed upstream JSON document; valid = FALSE is a 2xx answer whose body
\* is not JSON (res.json() rejects).
Doc(valid, value, temp) == [valid |-> valid, value |-> value, temp |-> temp]
NoDoc == Doc(FALSE, NULL, NULL)
Docs == {Doc(TRUE, "v1", "t1")}

UpstreamStatuses == {403, 404, 429, 500}

Outcome(kind, status, doc) == [kind |-> kind, status |-> status, doc |-> doc]
NetError == Outcome("neterr", 0, NoDoc)
Aborted == Outcome("abort", 0, NoDoc)
FetchOutcomes ==
  {Outcome("status", s, NoDoc) : s \in UpstreamStatuses}
    \cup {Outcome("status", 200, d) : d \in Docs \cup {NoDoc}}
    \cup {NetError}

\* Response.ok
Ok(status) == status >= 200 /\ status <= 299

\* mutant: every upstream error status is retried
RetryableAnyError(status) == status >= 400

\* the retry predicate of the fallback loops
Retryable(status) == status = 403 \/ status = 429 \/ status >= 500

\* --------------------------------------------------------------- providers
DataProviders == <<"coingecko", "chucknorris">>
WeatherProviders == <<"open-meteo", "met-no">>
IndexWeatherProviders == <<"open-meteo">>

\* the provider list the code at (entry, path) iterates over
Providers(e, path) ==
  CASE path = "/data" -> DataProviders
    [] path = "/weather" /\ e = "handlers" -> WeatherProviders
    [] path = "/weather" /\ e = "index" -> IndexWeatherProviders
    [] OTHER -> <<>>

\* p.url: the upstream URL of a provider; the weather builders put the
\* numeric lat/lon (after Number()) in the query, /data URLs are fixed
UpstreamUrl(name, u) ==
  IF u.path = "/data"
    THEN [host |-> name, lat |-> 0, lon |-> 0]
    ELSE [host |-> name, lat |-> Number(u.lat).val, lon |-> Number(u.lon).val]

\* p.transform of /data: coingecko passes the document on, chucknorris
\* keeps only its `value`
transform(name, d) ==
  IF name = "coingecko"
    THEN [value |-> d.value, temp |-> d.temp]
    ELSE [joke |-> d.value]

DataBody(name, d) ==
  [kind |-> "data", provider |-> name, payload |-> transform(name, d)]

\* parseOpenMeteoNow / parseMetNoNow, reduced to the current temperature:
\* both give {lat, lon, current, next3h}; met-no never has a precipitation
\* probability
parseNow(name, d, lat, lon) ==
  [kind |-> "weather", lat |-> lat, lon |-> lon,
   current |-> [temperature_c |-> d.temp],
   probability |-> IF name = "met-no" THEN NULL ELSE d.value]

SuccessBody(name, d, u) ==
  IF u.path = "/data"
    THEN DataBody(name, d)
    ELSE parseNow(name, d, Number(u.lat).val, Number(u.lon).val)

Ttl(path) ==
  CASE path = "/data" -> TTL_DATA
    [] path = "/weather" -> TTL_WEATHER
    [] OTHER -> TTL_FORECAST

AllFailedMessage(path) ==
  IF path = "/data" THEN "All providers failed" ELSE "All weather providers failed"

\* ---------------------------------------------------------------- requests
NewRequest(r) ==
  [id |-> r, pc |-> "new", url |-> NoUrl, idx |-> 0, called |-> <<>>,
   outcomes |-> <<>>, inflight |-> {}, timer |-> "unset", aborted |-> FALSE,
   cached |-> NoResp, resp |-> NoResp, fromCache |-> FALSE, lookups |-> 0,
   stores |-> 0,
   after |-> {}, doneAt |-> 0, loc |-> [lat |-> 0, lon |-> 0]]

\* a handler step gives the request's next state and the cache.put calls
\* it handed to ctx.waitUntil
Result(q, newPuts) == [q |-> q, puts |-> newPuts]

\* return <response>, through the `finally { clearTimeout(timeout) }`
Finish(q, response) ==
  [q EXCEPT !.pc = "done", !.resp = response,
            !.doneAt = IF response.status = 200 THEN now ELSE 0,
            !.timer = IF @ = "unset" THEN @ ELSE "cleared"]

\* await fetch(p.url, { signal: controller.signal, ... }) for provider i
StartFetch(e, q, i) ==
  [q EXCEPT !.pc = "fetch", !.idx = i,
            !.called = Append(@, UpstreamUrl(Providers(e, q.url.path)[i], q.url)),
            !.inflight = @ \cup {i}]

\* mutant: the entry is stored under the URL of the provider that answered
CachePutUnderProviderUrl(q, response) ==
  [key |-> q.called[Len(q.called)], resp |-> response, by |-> q.id]

\* ctx.waitUntil(cache.put(cacheKey, response.clone()))
CachePut(q, response) == [key |-> q.url, resp |-> response, by |-> q.id]

\* mutant: `await cache.put(..)` before the return, so the response waits
\* for the store
SucceedAfterStore(q, response) ==
  Result([q EXCEPT !.pc = "storing"], {CachePut(q, response)})

\* const response = ...; ctx.waitUntil(cache.put(..)); return response
Succeed(q, response) ==
  Result(Finish(q, response), {CachePut(q, response)})

\* mutant: a failed provider is retried once before the loop gives up
ContinueSameProvider(e, q) ==
  IF Len(q.called) < 2
    THEN Result(StartFetch(e, q, q.idx), {})
    ELSE Result(Finish(q, json(ErrorBody(AllFailedMessage(q.url.path)), 504, "")), {})

\* `continue`: the next provider of the list, or the 504 after the loop
Continue(e, q) ==
  IF q.idx < Len(Providers(e, q.url.path))
    THEN Result(StartFetch(e, q, q.idx + 1), {})
    ELSE Result(Finish(q, json(ErrorBody(AllFailedMessage(q.url.path)), 504, "")), {})

\* one iteration of the fallback loop of handleData / handleWeatherNow /
\* index.ts /data, from the point where the fetch of provider q.idx settles
FallbackStep(e, q, o) ==
  LET name == Providers(e, q.url.path)[q.idx]
      q1 == [q EXCEPT !.outcomes = Append(@, o), !.inflight = @ \ {q.idx}]
  IN IF o.kind = "status" /\ ~Ok(o.status)
       THEN IF Retryable(o.status)
              THEN Continue(e, q1)
              ELSE Result(Finish(q1, json(UpstreamErrorBody("Upstream API error", o.status), 502, "")), {})
       ELSE IF o.kind = "status" /\ o.doc.valid
              THEN Succeed(q1, json(SuccessBody(name, o.doc, q.url), 200,
                                    CacheControl(Ttl(q.url.path))))
              ELSE Continue(e, q1)

\* index.ts /weather: one provider, no loop; catch maps AbortError to 504
\* and every other exception to 500
IndexWeatherStep(q, o) ==
  LET q1 == [q EXCEPT !.outcomes = Append(@, o), !.inflight = @ \ {q.idx}]
  IN IF o.kind = "status" /\ ~Ok(o.status)
       THEN Result(Finish(q1, json(UpstreamErrorBody("Upstream API error", o.status), 502, "")), {})
       ELSE IF o.kind = "status" /\ o.doc.valid
              THEN Succeed(q1, json(SuccessBody("open-meteo", o.doc, q.url), 200,
                                    CacheControl(TTL_WEATHER)))
              ELSE Result(Finish(q1, json(ErrorBody("Weather fetch failed"),
                                          IF o.kind = "abort" THEN 504 ELSE 500, "")), {})

\* lat/lon validation of /weather (the same three checks in handleWeatherNow
\* and in index.ts), then `await cache.match(cacheKey)`
WeatherNowStart(q) ==
  LET latStr == q.url.lat
      lonStr == q.url.lon
      lat == Number(latStr)
      lon == Number(lonStr)
  IN IF ~Truthy(latStr) \/ ~Truthy(lonStr)
       THEN Finish(q, badReq("Missing required query params: lat and lon"))
       ELSE IF ~IsFinite(lat) \/ ~IsFinite(lon)
              THEN Finish(q, badReq("lat and lon must be numbers"))
              ELSE IF ~validLat(lat.val) \/ ~validLon(lon.val)
                     THEN Finish(q, badReq("lat must be between -90..90 and lon between -180..180"))
                     ELSE [q EXCEPT !.pc = "match"]

\* handleData / index.ts /data: straight to `await cache.match(cacheKey)`
DataStart(q) == [q EXCEPT !.pc = "match"]

\* --------------------------------------------------------------- the cache
\* mutant: the cache key leaves the query string out
MatchByPath(key) ==
  LET hit == {c \in cache : c.key.path = key.path
                              /\ now - c.storedAt < MaxAgeOf(c.resp.cc)}
  IN IF hit = {} THEN NoResp ELSE (CHOOSE c \in hit : TRUE).resp

\* cache.match(cacheKey): the response stored under the key while it is
\* fresh, undefined (NoResp) otherwise
Match(key) ==
  LET hit == {c \in cache : c.key = key /\ now - c.storedAt < MaxAgeOf(c.resp.cc)}
  IN IF hit = {} THEN NoResp ELSE (CHOOSE c \in hit : TRUE).resp

\* mutant: the fast path is missing, the loop is entered on a hit too
AfterMatchNoFastPath(e, q, cached) ==
  StartFetch(e, [q EXCEPT !.lookups = @ + 1, !.cached = cached, !.timer = "armed"], 1)

\* `if (cached) return cached;`, else arm the deadline and enter the loop
AfterMatch(e, q, cached) ==
  LET q1 == [q EXCEPT !.lookups = @ + 1, !.cached = cached]
  IN IF cached # NoResp
       THEN Finish([q1 EXCEPT !.fromCache = TRUE], cached)
       ELSE StartFetch(e, [q1 EXCEPT !.timer = "armed"], 1)

\* ----------------------------------------------------- /weather/forecast
GeocodeUrl == [host |-> "geocoding-api.open-meteo", lat |-> 0, lon |-> 0]
\* the coordinates of results[0] of a geocoding answer
Geocoded == [lat |-> 50, lon |-> 14]

\* an exception that escapes the handler: the runtime answers 500
Uncaught(q) == Finish(q, Response(500, "text/plain", "", [kind |-> "exception"]))

Min(a, b) == IF a < b THEN a ELSE b
Max(a, b) == IF a > b THEN a ELSE b

\* clampDays: the default 16 for a falsy string and for a non-finite number,
\* otherwise Number(daysStr) clamped into 1..16
clampDays(daysStr) ==
  LET n == IF Truthy(daysStr) THEN Number(daysStr) ELSE Num(16)
  IN IF ~IsFinite(n) THEN 16 ELSE Max(1, Min(16, n.val))

\* clampDays + buildOpenMeteoForecastUrl + fetch of handleWeatherForecast
FetchForecast(q, lat, lon) ==
  [q EXCEPT !.pc = "forecast", !.loc = [lat |-> lat, lon |-> lon],
            !.called = Append(@, [host |-> "open-meteo-forecast", lat |-> lat, lon |-> lon,
                                  forecast_days |-> clampDays(q.url.days)])]

\* parseForecastQuery without its first test: q wins over lat/lon
ForecastStartQFirst(q) ==
  LET latStr == q.url.lat
      lonStr == q.url.lon
  IN IF Truthy(q.url.q)
       THEN [q EXCEPT !.pc = "geocode", !.called = Append(@, GeocodeUrl)]
       ELSE IF ~Truthy(latStr) \/ ~Truthy(lonStr)
         THEN Finish(q, badReq("Provide q (city name) or both lat and lon"))
         ELSE FetchForecast(q, Number(latStr).val, Number(lonStr).val)

\* parseForecastQuery up to its first await, and on the coordinates branch
\* the rest of handleWeatherForecast up to the forecast fetch
ForecastStart(q) ==
  LET qs == q.url.q
      latStr == q.url.lat
      lonStr == q.url.lon
      lat == Number(latStr)
      lon == Number(lonStr)
  IN IF Truthy(qs) /\ (Truthy(latStr) \/ Truthy(lonStr))
       THEN Finish(q, badReq("Provide either q (city name) OR lat/lon, not both"))
       ELSE IF Truthy(qs)
         THEN [q EXCEPT !.pc = "geocode", !.called = Append(@, GeocodeUrl)]
         ELSE IF ~Truthy(latStr) \/ ~Truthy(lonStr)
           THEN Finish(q, badReq("Provide q (city name) or both lat and lon"))
           ELSE IF ~IsFinite(lat) \/ ~IsFinite(lon)
             THEN Finish(q, badReq("lat and lon must be numbers"))
             ELSE IF ~validLat(lat.val) \/ ~validLon(lon.val)
               THEN Finish(q, badReq("lat must be between -90..90 and lon between -180..180"))
               ELSE FetchForecast(q, lat.val, lon.val)

\* parseForecastQuery after the geocoding fetch settles
GeocodeStep(q, o) ==
  LET q1 == [q EXCEPT !.outcomes = Append(@, o)]
  IN IF o.kind # "status"
       THEN Uncaught(q1)
       ELSE IF ~Ok(o.status)
         THEN Finish(q1, badReq("Geocoding failed (status N)"))
         ELSE IF ~o.doc.valid
           THEN Uncaught(q1)
           ELSE IF o.doc.value = NULL
             THEN Finish(q1, badReq("City not found"))
             ELSE FetchForecast(q1, Geocoded.lat, Geocoded.lon)

\* handleWeatherForecast after the forecast fetch settles
ForecastStep(q, o) ==
  LET q1 == [q EXCEPT !.outcomes = Append(@, o)]
  IN IF o.kind # "status"
       THEN Uncaught(q1)
       ELSE IF ~Ok(o.status)
         THEN Finish(q1, json(UpstreamErrorBody("Upstream weather failed", o.status), 502, ""))
         ELSE IF ~o.doc.valid
           THEN Uncaught(q1)
           ELSE Finish(q1, json([kind |-> "forecast", location |-> q.loc,
                                 days |-> IF o.doc.temp = NULL THEN 0 ELSE 1],
                                200, CacheControl(TTL_FORECAST)))

\* index.ts knows /status, /data and /weather only
NotFound(q) == Finish(q, Response(404, "text/plain", "", [kind |-> "text", text |-> "Not Found"]))

\* ---------------------------------------------------------- stream proxies
\* Headers objects: sets of <<name, value>> with lower-case names, one value
\* per name
HeadersHas(hs, h) == \E p \in hs : p[1] = h
HeadersGet(hs, h) == IF HeadersHas(hs, h) THEN (CHOOSE p \in hs : p[1] = h)[2] ELSE NULL
HeadersSet(hs, h, v) == {p \in hs : p[1] # h} \cup {<<h, v>>}

\* new URL(str): fails on a string that is not an absolute URL, lower-cases
\* scheme and host
URLRecord(ok, protocol, hostname, pathname) ==
  [ok |-> ok, protocol |-> protocol, hostname |-> hostname, pathname |-> pathname]
InvalidURL == URLRecord(FALSE, "", "", <<>>)
ParseURL(str) ==
  CASE str = "ftp://a.example/v.mp4" -> URLRecord(TRUE, "ftp:", "a.example", <<"v.mp4">>)
    [] str = "http://a.example/v.mp4" -> URLRecord(TRUE, "http:", "a.example", <<"v.mp4">>)
    [] str = "HTTPS://B.Example/v.mp4" -> URLRecord(TRUE, "https:", "b.example", <<"v.mp4">>)
    [] str = "https://c.example/v.mp4" -> URLRecord(TRUE, "https:", "c.example", <<"v.mp4">>)
    [] str = "https://bridge.example" -> URLRecord(TRUE, "https:", "bridge.example", <<>>)
    [] OTHER -> InvalidURL

\* encodeURIComponent
encodeURIComponent(str) ==
  CASE str = "cam 1" -> "cam%201"
    [] OTHER -> str

\* String.prototype.split(',') and trim() on the values of ALLOWED_VIDEO_HOSTS
SplitComma(str) ==
  CASE str = "" -> <<"">>
    [] str = " , " -> <<" ", " ">>
    [] str = "a.example" -> <<"a.example">>
    [] str = " a.example ,,b.example" -> <<" a.example ", "", "b.example">>
    [] OTHER -> <<str>>
Trim(str) ==
  CASE str = " " -> ""
    [] str = " a.example " -> "a.example"
    [] OTHER -> str
NonEmpty(str) == str # ""

\* the inputs of one exchange
Methods == {"GET", "HEAD", "POST", "OPTIONS"}
TargetStrs == {NULL, "", "not a url", "ftp://a.example/v.mp4", "http://a.example/v.mp4",
               "HTTPS://B.Example/v.mp4", "https://c.example/v.mp4"}
HostListStrs == {NULL, "", " , ", "a.example", " a.example ,,b.example"}
CameraIdStrs == {NULL, "", "cam 1"}
IdStrs == {NULL, "cam2"}
BridgeBases == {NULL, "", "bridge.local", "https://bridge.example"}
BridgeTokens == {NULL, "s3cret"}
InboundHeaders ==
  { {},
    {<<"range", "bytes=0-99">>},
    {<<"range", "bytes=0-99">>, <<"if-range", "e1">>, <<"if-none-match", "e1">>,
     <<"if-modified-since", "t0">>, <<"authorization", "Basic client">>,
     <<"cookie", "sid=1">>},
    {<<"if-none-match", "">>, <<"cookie", "sid=1">>, <<"x-forwarded-for", "10.0.0.1">>} }

Query(url, cameraId, id) == [url |-> url, cameraId |-> cameraId, id |-> id]
Env(hosts, base, token) ==
  [ALLOWED_VIDEO_HOSTS |-> hosts, BRIDGE_BASE |-> base, BRIDGE_TOKEN |-> token]

\* request.json(): valid = FALSE is a body that is not JSON; an absent
\* property is NULL (a body of `null` or `{}` has every property absent)
Json(valid, cameraId, id, action, durationMs) ==
  [valid |-> valid, cameraId |-> cameraId, id |-> id, action |-> action,
   durationMs |-> durationMs]
NoJson == Json(FALSE, NULL, NULL, NULL, NULL)
PtzBodies ==
  {NoJson,
   Json(TRUE, NULL, NULL, NULL, NULL),
   Json(TRUE, "cam 1", NULL, "up", NULL),
   Json(TRUE, "cam 1", NULL, "stop", "500"),
   Json(TRUE, "cam 1", NULL, "spin", NULL),
   Json(TRUE, "cam 1", NULL, NULL, NULL),
   Json(TRUE, NULL, NULL, "up", NULL),
   Json(TRUE, NULL, "cam 1", "up", NULL)}

\* what the upstream of a proxy answers
UpstreamHeaders ==
  { {<<"content-type", "video/mp4">>, <<"content-length", "1000">>},
    {<<"content-type", "video/mp4">>, <<"content-range", "bytes 0-99/1000">>,
     <<"accept-ranges", "bytes">>, <<"etag", "e1">>, <<"set-cookie", "up=1">>,
     <<"server", "nginx">>},
    {<<"accept-ranges", "none">>, <<"location", "/moved">>,
     <<"access-control-allow-origin", "https://up.example">>},
    {<<"accept-ranges", "">>, <<"etag", "">>, <<"content-type", "application/json">>} }
ProxyStatuses == {200, 206, 404}
Answer(kind, status, headers, body) ==
  [kind |-> kind, status |-> status, headers |-> headers, body |-> body]
NoAnswer == Answer("none", 0, {}, NoBody)
Rejected == Answer("neterr", 0, {}, NoBody)
ProxyAnswers ==
  {Answer("status", st, hs, [kind |-> "stream", data |-> "upstream bytes"]) :
     st \in ProxyStatuses, hs \in UpstreamHeaders} \cup {Rejected}

\* the request a proxy hands to fetch; and one exchange: the inbound request
\* (route, method, query, headers, body), the env it is handled with, the
\* outbound request, the upstream answer and the response
Outbound(url, method, headers, body) ==
  [url |-> url, method |-> method, headers |-> headers, body |-> body]
NoOutbound == Outbound(InvalidURL, "", {}, NoBody)
ProxyResponse(status, headers, body) ==
  [status |-> status, headers |-> headers, body |-> body]
NoProxyResponse == ProxyResponse(0, {}, NoBody)
Exchange(route, method, query, headers, body, env) ==
  [pc |-> "received", route |-> route, method |-> method, query |-> query,
   headers |-> headers, body |-> body, env |-> env,
   sent |-> NoOutbound, answer |-> NoAnswer, resp |-> NoProxyResponse]
NoExchange ==
  [Exchange("none", "", Query(NULL, NULL, NULL), {}, NoJson, Env(NULL, NULL, NULL))
     EXCEPT !.pc = "idle"]

\* return <response>
Reply(x, response) == [x EXCEPT !.pc = "done", !.resp = response]
\* await fetch(<outbound>)
Forward(x, outbound) == [x EXCEPT !.pc = "upstream", !.sent = outbound]

MethodNotAllowed(allow) ==
  ProxyResponse(405, {<<"allow", allow>>}, [kind |-> "text", text |-> "Method Not Allowed"])
JsonError(status, error, cors) ==
  ProxyResponse(status,
                {<<"content-type", "application/json">>}
                  \cup (IF cors THEN {<<"access-control-allow-origin", "*">>} ELSE {}),
                [kind |-> "json", error |-> error])
\* an exception leaves the handler
ProxyUncaught == ProxyResponse(500, {}, [kind |-> "exception"])
ProxyNotFound ==
  ProxyResponse(404, {}, [kind |-> "text", text |-> "Not Found"])

\* the request headers a proxy forwards
ForwardList == <<"range", "if-range", "if-none-match", "if-modified-since">>
SeqRange(seq) == {seq[i] : i \in 1..Len(seq)}

\* mutant: every inbound header is forwarded
ForwardEveryHeader(inbound) == {p \in inbound : Truthy(p[2])}

ForwardHeaders(inbound) ==
  {<<h, HeadersGet(inbound, h)>> :
     h \in {g \in SeqRange(ForwardList) : Truthy(HeadersGet(inbound, g))}}

\* the response headers a proxy relays
CameraKeep == <<"content-type", "content-length", "accept-ranges", "content-range",
                "etag", "last-modified", "date", "cache-control", "expires", "vary">>
VideoKeep == CameraKeep \o <<"location">>
KeptHeaders(keep, upstream) ==
  {<<h, HeadersGet(upstream, h)>> :
     h \in {g \in SeqRange(keep) : Truthy(HeadersGet(upstream, g))}}

\* mutant: Accept-Ranges is always set to bytes
AlwaysAcceptRanges(out) == HeadersSet(out, "accept-ranges", "bytes")

\* if (!out.has('accept-ranges')) out.set('Accept-Ranges', 'bytes')
WithAcceptRanges(out) ==
  IF ~HeadersHas(out, "accept-ranges") THEN HeadersSet(out, "accept-ranges", "bytes") ELSE out

RelayHeaders(keep, upstream) ==
  WithAcceptRanges(HeadersSet(KeptHeaders(keep, upstream), "access-control-allow-origin", "*"))

\* mutant: the upstream body is relayed for HEAD too
RelayBodyAlways(method, body) == body

\* request.method === 'HEAD' ? null : upstream.body
RelayBody(method, body) == IF method = "HEAD" THEN NoBody ELSE body

\* the response of a stream proxy once its fetch settles
StreamRelay(x, keep, a) ==
  IF a.kind # "status"
    THEN Reply([x EXCEPT !.answer = a], ProxyUncaught)
    ELSE Reply([x EXCEPT !.answer = a],
               ProxyResponse(a.status, RelayHeaders(keep, a.headers),
                             RelayBody(x.method, a.body)))

\* the allow-list of handleVideo
AllowedHosts(hosts) ==
  LET pieces == SplitComma(IF hosts = NULL THEN "" ELSE hosts)
  IN SelectSeq([i \in 1..Len(pieces) |-> Trim(pieces[i])], NonEmpty)

\* mutant: an empty allow-list admits no host
HostListedOnly(hosts, hostname) == hostname \in SeqRange(AllowedHosts(hosts))

\* !(allowedHosts.length > 0 && !allowedHosts.includes(targetUrl.hostname))
HostAdmitted(hosts, hostname) ==
  LET allowedHosts == AllowedHosts(hosts)
  IN ~(Len(allowedHosts) > 0 /\ ~(hostname \in SeqRange(allowedHosts)))

\* targetUrl.toString()
Href(u) == [u EXCEPT !.ok = TRUE]

\* handleVideo up to its fetch
handleVideo(x) ==
  LET target == x.query.url
      targetUrl == ParseURL(target)
  IN IF x.method # "GET" /\ x.method # "HEAD"
       THEN Reply(x, MethodNotAllowed("GET, HEAD"))
       ELSE IF ~Truthy(target)
         THEN Reply(x, JsonError(400, "Missing required query param: url", FALSE))
         ELSE IF ~targetUrl.ok
           THEN Reply(x, JsonError(400, "Invalid url", FALSE))
           ELSE IF targetUrl.protocol # "https:" /\ targetUrl.protocol # "http:"
             THEN Reply(x, JsonError(400, "Only http(s) URLs are allowed", FALSE))
             ELSE IF ~HostAdmitted(x.env.ALLOWED_VIDEO_HOSTS, targetUrl.hostname)
               THEN Reply(x, JsonError(403, "Host not allowed", FALSE))
               ELSE Forward(x, Outbound(Href(targetUrl), x.method,
                                        ForwardHeaders(x.headers), NoBody))

\* new URL(`/camera/${encodeURIComponent(cameraId)}/<leaf>`, bridgeBase)
BridgeUrl(base, cameraId, leaf) ==
  [base EXCEPT !.pathname = <<"camera", encodeURIComponent(cameraId), leaf>>]
Bearer(token) == "Bearer " \o token
WithBridgeToken(headers, token) ==
  IF Truthy(token) THEN HeadersSet(headers, "authorization", Bearer(token)) ELSE headers

\* mutant: the bridge configuration is checked before the identifier
handleCameraStreamConfigFirst(x, url) ==
  IF x.method # "GET" /\ x.method # "HEAD"
    THEN Reply(x, MethodNotAllowed("GET, HEAD"))
    ELSE IF ~Truthy(x.env.BRIDGE_BASE)
      THEN Reply(x, JsonError(501, "Bridge not configured", TRUE))
      ELSE IF ~Truthy(url.cameraId)
        THEN Reply(x, JsonError(400, "Missing required query param: cameraId", FALSE))
        ELSE IF ~ParseURL(x.env.BRIDGE_BASE).ok
          THEN Reply(x, ProxyUncaught)
          ELSE Forward(x, Outbound(BridgeUrl(ParseURL(x.env.BRIDGE_BASE), url.cameraId, "stream"),
                                   x.method,
                                   WithBridgeToken(ForwardHeaders(x.headers), x.env.BRIDGE_TOKEN),
                                   NoBody))

\* handleCameraStream up to its fetch; url is the handler's URL argument
handleCameraStream(x, url) ==
  LET cameraId == url.cameraId
      bridgeBase == x.env.BRIDGE_BASE
      bridgeToken == x.env.BRIDGE_TOKEN
  IN IF x.method # "GET" /\ x.method # "HEAD"
       THEN Reply(x, MethodNotAllowed("GET, HEAD"))
       ELSE IF ~Truthy(cameraId)
         THEN Reply(x, JsonError(400, "Missing required query param: cameraId", FALSE))
         ELSE IF ~Truthy(bridgeBase)
           THEN Reply(x, JsonError(501, "Bridge not configured", TRUE))
           ELSE IF ~ParseURL(bridgeBase).ok
             THEN Reply(x, ProxyUncaught)
             ELSE Forward(x, Outbound(BridgeUrl(ParseURL(bridgeBase), cameraId, "stream"),
                                      x.method,
                                      WithBridgeToken(ForwardHeaders(x.headers), bridgeToken),
                                      NoBody))

\* handleWebcamStream: id stands in for an absent cameraId
handleWebcamStream(x, url) ==
  handleCameraStream(x, IF ~Truthy(url.cameraId) /\ Truthy(url.id)
                          THEN [url EXCEPT !.cameraId = url.id]
                          ELSE url)

validActions == {"up", "down", "left", "right", "stop"}
Preflight ==
  ProxyResponse(200,
                {<<"access-control-allow-origin", "*">>,
                 <<"access-control-allow-methods", "POST, OPTIONS">>,
                 <<"access-control-allow-headers", "Content-Type, Authorization">>,
                 <<"access-control-max-age", "600">>},
                NoBody)
InvalidPtz ==
  ProxyResponse(400,
                {<<"content-type", "application/json">>, <<"access-control-allow-origin", "*">>},
                [kind |-> "json", error |-> "Missing/invalid cameraId or action",
                 allowedActions |-> validActions])
PtzOutbound(x) ==
  Outbound(BridgeUrl(ParseURL(x.env.BRIDGE_BASE), x.body.cameraId, "ptz"), "POST",
           WithBridgeToken({<<"content-type", "application/json">>}, x.env.BRIDGE_TOKEN),
           [kind |-> "json", action |-> x.body.action, durationMs |-> x.body.durationMs])

\* mutant: the bridge configuration is checked before the body
handleCameraPtzConfigFirst(x) ==
  IF x.method = "OPTIONS"
    THEN Reply(x, Preflight)
    ELSE IF x.method # "POST"
      THEN Reply(x, MethodNotAllowed("POST, OPTIONS"))
      ELSE IF ~Truthy(x.env.BRIDGE_BASE)
        THEN Reply(x, JsonError(501, "Bridge not configured", TRUE))
        ELSE IF ~x.body.valid
          THEN Reply(x, JsonError(400, "Invalid JSON body", TRUE))
          ELSE IF ~Truthy(x.body.cameraId) \/ ~Truthy(x.body.action)
                    \/ ~(x.body.action \in validActions)
            THEN Reply(x, InvalidPtz)
            ELSE IF ~ParseURL(x.env.BRIDGE_BASE).ok
              THEN Reply(x, ProxyUncaught)
              ELSE Forward(x, PtzOutbound(x))

\* handleCameraPtz up to its fetch
handleCameraPtz(x) ==
  LET cameraId == x.body.cameraId
      action == x.body.action
      bridgeBase == x.env.BRIDGE_BASE
  IN IF x.method = "OPTIONS"
       THEN Reply(x, Preflight)
       ELSE IF x.method # "POST"
         THEN Reply(x, MethodNotAllowed("POST, OPTIONS"))
         ELSE IF ~x.body.valid
           THEN Reply(x, JsonError(400, "Invalid JSON body", TRUE))
           ELSE IF ~Truthy(cameraId) \/ ~Truthy(action) \/ ~(action \in validActions)
             THEN Reply(x, InvalidPtz)
             ELSE IF ~Truthy(bridgeBase)
               THEN Reply(x, JsonError(501, "Bridge not configured", TRUE))
               ELSE IF ~ParseURL(bridgeBase).ok
                 THEN Reply(x, ProxyUncaught)
                 ELSE Forward(x, PtzOutbound(x))

\* handleWebcamPtz hands the request to handleCameraPtz as it is
handleWebcamPtz(x) == handleCameraPtz(x)

\* handleCameraPtz once its fetch settles: upstream.text(), the status and
\* the content type, with the CORS header
PtzRelay(x, a) ==
  IF a.kind # "status"
    THEN Reply([x EXCEPT !.answer = a], ProxyUncaught)
    ELSE LET ct == HeadersGet(a.headers, "content-type")
             cors == {<<"access-control-allow-origin", "*">>}
         IN Reply([x EXCEPT !.answer = a],
                  ProxyResponse(a.status,
                                IF Truthy(ct) THEN HeadersSet(cors, "content-type", ct) ELSE cors,
                                [kind |-> "text", data |-> a.body.data]))


\* ------------------------------------------------------------------ actions
Init ==
  /\ entry \in {"index", "handlers"}
  /\ now = 0
  /\ cache = {}
  /\ puts = {}
  /\ req = [r \in Requests |-> NewRequest(r)]
  /\ px = NoExchange

\* the requests answered 200 for the same URL before this one arrives, and
\* less than the TTL ago
AnsweredBefore(u) ==
  {s \in Requests : /\ req[s].pc = "done" /\ req[s].url = u
                     /\ req[s].resp.status = 200
                     /\ now - req[s].doneAt < Ttl(u.path)}

Arrive(r, u) ==
  [req[r] EXCEPT !.url = u, !.after = AnsweredBefore(u)]

CanArrive(r) ==
  /\ req[r].pc = "new"
  /\ \A s \in Requests : s < r => req[s].pc # "new"

ReceiveData(r) ==
  /\ CanArrive(r)
  /\ \E u \in DataUrls : req' = [req EXCEPT ![r] = DataStart(Arrive(r, u))]
  /\ UNCHANGED <<px, entry, now, cache, puts>>

ReceiveWeather(r) ==
  /\ CanArrive(r)
  /\ \E u \in WeatherUrls : req' = [req EXCEPT ![r] = WeatherNowStart(Arrive(r, u))]
  /\ UNCHANGED <<px, entry, now, cache, puts>>

ReceiveForecast(r) ==
  /\ CanArrive(r)
  /\ \E u \in ForecastUrls :
       req' = [req EXCEPT ![r] = IF entry = "index"
                                   THEN NotFound(Arrive(r, u))
                                   ELSE ForecastStart(Arrive(r, u))]
  /\ UNCHANGED <<px, entry, now, cache, puts>>

\* `await cache.match(cacheKey)` resolves
CacheLookup(r) ==
  /\ req[r].pc = "match"
  /\ req' = [req EXCEPT ![r] = AfterMatch(entry, req[r], Match(req[r].url))]
  /\ UNCHANGED <<px, entry, now, cache, puts>>

\* the handler code that runs when the awaited upstream fetch settles
HandlerStep(e, q, o) ==
  IF e = "index" /\ q.url.path = "/weather"
    THEN IndexWeatherStep(q, o)
    ELSE FallbackStep(e, q, o)

Settle(r, o) ==
  LET res == HandlerStep(entry, req[r], o)
  IN /\ req' = [req EXCEPT ![r] = [res.q EXCEPT !.stores = @ + Cardinality(res.puts)]]
     /\ puts' = puts \cup res.puts
     /\ UNCHANGED <<px, entry, now, cache>>

\* the upstream answers, or the connection fails, before the deadline
UpstreamAnswers(r) ==
  /\ req[r].pc = "fetch"
  /\ ~req[r].aborted
  /\ \E o \in FetchOutcomes : Settle(r, o)

\* setTimeout(() => controller.abort(), timeoutMs) fires
DeadlineFires(r) ==
  /\ req[r].pc = "fetch"
  /\ req[r].timer = "armed"
  /\ ~req[r].aborted
  /\ req' = [req EXCEPT ![r].aborted = TRUE]
  /\ UNCHANGED <<px, entry, now, cache, puts>>

\* a fetch on an aborted signal rejects with AbortError
FetchAborted(r) ==
  /\ req[r].pc = "fetch"
  /\ req[r].aborted
  /\ Settle(r, Aborted)

\* the geocoding service also answers 200 with an empty result list
GeocodeOutcomes == FetchOutcomes \cup {Outcome("status", 200, Doc(TRUE, NULL, NULL))}

GeocodeAnswers(r) ==
  /\ req[r].pc = "geocode"
  /\ \E o \in GeocodeOutcomes : req' = [req EXCEPT ![r] = GeocodeStep(req[r], o)]
  /\ UNCHANGED <<px, entry, now, cache, puts>>

ForecastAnswers(r) ==
  /\ req[r].pc = "forecast"
  /\ \E o \in FetchOutcomes : req' = [req EXCEPT ![r] = ForecastStep(req[r], o)]
  /\ UNCHANGED <<px, entry, now, cache, puts>>

\* a cache.put handed to ctx.waitUntil completes: the entry replaces the
\* one under the same key
StoreCompletes ==
  \E p \in puts :
    /\ cache' = {c \in cache : c.key # p.key}
                  \cup {[key |-> p.key, resp |-> p.resp, storedAt |-> now]}
    /\ puts' = puts \ {p}
    /\ UNCHANGED <<px, entry, now, req>>

\* a cache.put rejects; ctx.waitUntil drops the rejection
StoreFails ==
  \E p \in puts :
    /\ puts' = puts \ {p}
    /\ UNCHANGED <<px, entry, now, cache, req>>

\* time passes; a pending deadline (4.5 s or 6 s) fires before a tick does,
\* and entries older than their max-age leave the cache
Tick ==
  /\ now + TickSeconds <= MaxTime
  /\ \A r \in Requests : ~(req[r].timer = "armed" /\ ~req[r].aborted)
  /\ now' = now + TickSeconds
  /\ cache' = {c \in cache : now' - c.storedAt < MaxAgeOf(c.resp.cc)}
  /\ UNCHANGED <<px, entry, puts, req>>

NextChain ==
  \/ \E r \in Requests : ReceiveData(r)
  \/ \E r \in Requests : ReceiveWeather(r)
  \/ \E r \in Requests : CacheLookup(r)
  \/ \E r \in Requests : UpstreamAnswers(r)
  \/ \E r \in Requests : DeadlineFires(r)
  \/ \E r \in Requests : FetchAborted(r)
  \/ StoreCompletes
  \/ StoreFails
  \/ Tick

NextForecast ==
  \/ \E r \in Requests : ReceiveForecast(r)
  \/ \E r \in Requests : GeocodeAnswers(r)
  \/ \E r \in Requests : ForecastAnswers(r)

Next == NextChain \/ NextForecast

\* /data and /weather traffic
SpecChain == Init /\ [][NextChain]_vars

\* every awaited promise of a /data or /weather request settles: cache.match
\* resolves, and a fetch answers or, once its signal is aborted, rejects
FairChain ==
  \A r \in Requests :
    /\ WF_vars(CacheLookup(r))
    /\ WF_vars(UpstreamAnswers(r))
    /\ WF_vars(FetchAborted(r))

SpecChainFair == SpecChain /\ FairChain

\* /weather/forecast traffic
SpecForecast == Init /\ [][NextForecast]_vars

\* the JSON routes
Spec == Init /\ [][Next]_vars

\* ---------------------------------------------------- stream proxy actions
\* index.ts has no route for the proxies
Handle(x, handled) == IF entry = "index" THEN Reply(x, ProxyNotFound) ELSE handled

ReceiveVideo ==
  /\ px.pc = "idle"
  /\ \E m \in Methods, t \in TargetStrs, hs \in InboundHeaders, al \in HostListStrs :
       LET x == Exchange("/video", m, Query(t, NULL, NULL), hs, NoJson, Env(al, NULL, NULL))
       IN px' = Handle(x, handleVideo(x))
  /\ UNCHANGED <<entry, now, cache, puts, req>>

ReceiveCameraStream ==
  /\ px.pc = "idle"
  /\ \E m \in Methods, c \in CameraIdStrs, i \in IdStrs, hs \in InboundHeaders,
        b \in BridgeBases, t \in BridgeTokens :
       LET x == Exchange("/camera/stream", m, Query(NULL, c, i), hs, NoJson, Env(NULL, b, t))
       IN px' = Handle(x, handleCameraStream(x, x.query))
  /\ UNCHANGED <<entry, now, cache, puts, req>>

ReceiveWebcamStream ==
  /\ px.pc = "idle"
  /\ \E m \in Methods, c \in CameraIdStrs, i \in IdStrs, hs \in InboundHeaders,
        b \in BridgeBases, t \in BridgeTokens :
       LET x == Exchange("/webcam/stream", m, Query(NULL, c, i), hs, NoJson, Env(NULL, b, t))
       IN px' = Handle(x, handleWebcamStream(x, x.query))
  /\ UNCHANGED <<entry, now, cache, puts, req>>

ReceiveCameraPtz ==
  /\ px.pc = "idle"
  /\ \E m \in Methods, body \in PtzBodies, b \in BridgeBases, t \in BridgeTokens :
       LET x == Exchange("/camera/ptz", m, Query(NULL, NULL, NULL),
                         {<<"content-type", "application/json">>}, body, Env(NULL, b, t))
       IN px' = Handle(x, handleCameraPtz(x))
  /\ UNCHANGED <<entry, now, cache, puts, req>>

ReceiveWebcamPtz ==
  /\ px.pc = "idle"
  /\ \E m \in Methods, body \in PtzBodies, b \in BridgeBases, t \in BridgeTokens :
       LET x == Exchange("/webcam/ptz", m, Query(NULL, NULL, NULL),
                         {<<"content-type", "application/json">>}, body, Env(NULL, b, t))
       IN px' = Handle(x, handleWebcamPtz(x))
  /\ UNCHANGED <<entry, now, cache, puts, req>>

\* the awaited fetch of a proxy settles and the handler builds its response
VideoAnswers ==
  /\ px.pc = "upstream" /\ px.route = "/video"
  /\ \E a \in ProxyAnswers : px' = StreamRelay(px, VideoKeep, a)
  /\ UNCHANGED <<entry, now, cache, puts, req>>

BridgeStreamAnswers ==
  /\ px.pc = "upstream" /\ px.route \in {"/camera/stream", "/webcam/stream"}
  /\ \E a \in ProxyAnswers : px' = StreamRelay(px, CameraKeep, a)
  /\ UNCHANGED <<entry, now, cache, puts, req>>

BridgeControlAnswers ==
  /\ px.pc = "upstream" /\ px.route \in {"/camera/ptz", "/webcam/ptz"}
  /\ \E a \in ProxyAnswers : px' = PtzRelay(px, a)
  /\ UNCHANGED <<entry, now, cache, puts, req>>

NextProxy ==
  \/ ReceiveVideo
  \/ ReceiveCameraStream
  \/ ReceiveWebcamStream
  \/ ReceiveCameraPtz
  \/ ReceiveWebcamPtz
  \/ VideoAnswers
  \/ BridgeStreamAnswers
  \/ BridgeControlAnswers

\* proxy traffic
SpecProxy == Init /\ [][NextProxy]_vars

\* ================================================================= claims
Req(r) == req[r]
ChainPaths == {"/data", "/weather"}
OnChain(q) == q.url.path \in ChainPaths

\* the provider list an endpoint is documented with
DocumentedChain(path) == IF path = "/data" THEN DataProviders ELSE WeatherProviders

\* the statuses the claims call retryable, and the other non-2xx ones
SkipStatus(o) == o.kind = "status" /\ (o.status \in {403, 429} \/ o.status >= 500)
RejectStatus(o) ==
  o.kind = "status" /\ ~(o.status \in 200..299) /\ ~SkipStatus(o)
GoodAnswer(o) == o.kind = "status" /\ o.status \in 200..299 /\ o.doc.valid
TransientFailure(o) == o.kind \in {"neterr", "abort"} \/ SkipStatus(o)

\* C1: a provider answering 403, 429 or >= 500 is skipped and the next
\* provider of the endpoint's list is tried; 429 then 2xx gives the client
\* 200 with provider 2's transformed payload (on /data with `provider` set
\* to provider 2's name).
C1_SkipAndTryNext ==
  \A r \in Requests :
    LET q == Req(r)
        chain == DocumentedChain(q.url.path)
    IN OnChain(q) =>
         /\ \A k \in 1..Len(q.outcomes) :
              (SkipStatus(q.outcomes[k]) /\ k < Len(chain)) =>
                 /\ Len(q.called) > k
                 /\ q.called[k + 1].host = chain[k + 1]
         /\ ( /\ q.pc = "done"
              /\ Len(q.outcomes) = 2
              /\ q.outcomes[1].kind = "status" /\ q.outcomes[1].status = 429
              /\ GoodAnswer(q.outcomes[2]) )
            => /\ q.resp.status = 200
               /\ q.resp.body = SuccessBody(chain[2], q.outcomes[2].doc, q.url)
               /\ (q.url.path = "/data" => q.resp.body.provider = chain[2])

\* C2: a non-2xx answer other than 403, 429, >= 500 ends the chain at once:
\* the client gets 502 and no later provider is attempted.
C2_RejectStopsChain ==
  \A r \in Requests :
    LET q == Req(r)
    IN OnChain(q) =>
         \A k \in 1..Len(q.outcomes) :
           RejectStatus(q.outcomes[k]) =>
             /\ k = Len(q.outcomes)
             /\ Len(q.called) = k
             /\ q.inflight = {}
             /\ q.pc = "done"
             /\ q.resp.status = 502
             /\ q.resp.body.status = q.outcomes[k].status

C2_Witness ==
  \E r \in Requests :
    /\ Req(r).pc = "done"
    /\ Req(r).url.path = "/data"
    /\ Len(Req(r).outcomes) = 1
    /\ Req(r).outcomes[1].status = 404
    /\ Req(r).resp.status = 502
    /\ Len(Req(r).called) = 1
    /\ Len(Providers(entry, "/data")) = 2

\* C3: when every provider of the list ends in a transient failure (network
\* error, cancellation, 403, 429, >= 500) the client gets 504 with the
\* all-providers-failed JSON body, on /data and on /weather.
C3_AllFailedIs504 ==
  \A r \in Requests :
    LET q == Req(r)
    IN ( /\ OnChain(q)
         /\ q.pc = "done"
         /\ q.lookups = 1 /\ ~q.fromCache
         /\ Len(q.outcomes) = Len(Providers(entry, q.url.path))
         /\ \A k \in 1..Len(q.outcomes) : TransientFailure(q.outcomes[k]) )
       => /\ q.resp.status = 504
          /\ q.resp.ctype = "application/json"
          /\ q.resp.body.kind = "error"

\* C4: the cache lookup precedes every upstream fetch; on a hit the cached
\* response is returned as is, no upstream is called and the loop is not
\* entered.
C4_LookupBeforeUpstream ==
  \A r \in Requests :
    LET q == Req(r)
    IN OnChain(q) =>
         /\ (q.called # <<>> => q.lookups = 1 /\ q.cached = NoResp)
         /\ (q.lookups = 1 /\ q.cached # NoResp) =>
              /\ q.pc = "done"
              /\ q.resp = q.cached
              /\ q.called = <<>> /\ q.outcomes = <<>>
              /\ q.idx = 0 /\ q.timer = "unset"
              /\ q.stores = 0

C4_Witness ==
  \E r \in Requests :
    /\ Req(r).pc = "done" /\ Req(r).lookups = 1
    /\ Req(r).cached # NoResp /\ Req(r).resp = Req(r).cached
    /\ Req(r).called = <<>>

\* C5, as stated: a request arriving after an identical request was answered
\* with Success, within the TTL, is served the same body from the cache and
\* calls no upstream, whatever the interleaving with the asynchronous store.
C5_SecondAlwaysFromCache ==
  \A r \in Requests :
    LET q == Req(r)
    IN (OnChain(q) /\ q.pc = "done" /\ q.after # {}) =>
         /\ q.fromCache
         /\ q.called = <<>>
         /\ \E s \in q.after : q.resp.body = Req(s).resp.body

\* the entry a lookup of `key` finds: stored, and younger than its max-age
Stored(key) ==
  {c \in cache : c.key = key /\ now - c.storedAt < MaxAgeOf(c.resp.cc)}

\* a response served from the cache is the response an earlier request for
\* the same URL got from the chain
C5_HitIsFirstResponse ==
  \A r \in Requests :
    LET q == Req(r)
    IN (OnChain(q) /\ q.lookups = 1 /\ q.cached # NoResp) =>
         /\ q.called = <<>>
         /\ \E s \in Requests \ {r} :
              /\ Req(s).url = q.url
              /\ Req(s).pc = "done" /\ ~Req(s).fromCache
              /\ Req(s).resp.status = 200
              /\ Req(s).resp = q.resp

\* a lookup that runs while a fresh entry is stored returns that entry
C5_LookupAfterStoreHits ==
  \A r \in Requests :
    (Req(r).pc = "match" /\ req'[r].pc # "match" /\ Stored(Req(r).url) # {}) =>
      /\ req'[r].pc = "done"
      /\ req'[r].fromCache
      /\ req'[r].called = <<>>
      /\ \E c \in Stored(Req(r).url) : req'[r].resp = c.resp

\* C5, amended: a second identical request whose cache lookup happens after
\* the asynchronous store of the first response has completed, and before
\* that entry's max-age has elapsed, returns the response the first request
\* got (status, headers, body) and calls no upstream.
C5_Amended == [][C5_LookupAfterStoreHits]_vars /\ []C5_HitIsFirstResponse

C5_Witness ==
  \E r \in Requests :
    /\ Req(r).pc = "done" /\ Req(r).fromCache /\ Req(r).after # {}
    /\ \E s \in Req(r).after : Req(s).resp = Req(r).resp /\ Req(s).stores = 1

RequestUrls == DataUrls \cup WeatherUrls

\* C6: cache.put is called exactly once by a request that resolves with
\* Success and never by one that ends 400, 502 or 504; the key is the
\* request URL and the value the response returned to the client, so the
\* cache holds status-200 Success responses only.

C6_StoreOncePerSuccess ==
  /\ \A r \in Requests :
       LET q == Req(r)
       IN OnChain(q) =>
            /\ q.stores = IF q.pc = "done" /\ q.resp.status = 200 /\ ~q.fromCache
                            THEN 1 ELSE 0
            /\ Cardinality({p \in puts : p.by = r}) <= q.stores
  /\ \A p \in puts :
       /\ p.key \in RequestUrls
       /\ p.key = Req(p.by).url
       /\ p.resp = Req(p.by).resp
  /\ \A c \in cache :
       /\ c.key \in RequestUrls
       /\ c.resp.status = 200
       /\ c.resp.body.kind \in {"data", "weather"}
       /\ \E r \in Requests : Req(r).url = c.key /\ Req(r).resp = c.resp

C6_Witness ==
  \E r \in Requests :
    /\ Req(r).pc = "done" /\ Req(r).resp.status = 200 /\ Req(r).stores = 1
    /\ \E c \in cache : c.key = Req(r).url /\ c.resp = Req(r).resp
    /\ \E s \in Requests : Req(s).pc = "done" /\ Req(s).resp.status = 504
                            /\ Req(s).stores = 0

\* while a store is pending its request has already been answered
C7_Returned ==
  \A p \in puts : Req(p.by).pc = "done" /\ Req(p.by).resp = p.resp

\* a store being issued, completing or failing leaves every answered
\* response as it is
C7_Unchanged ==
  \A r \in Requests :
    (Req(r).stores = 1 /\ puts' # puts) =>
       req'[r].pc = "done" /\ req'[r].resp = Req(r).resp /\ Req(r).pc = "done"

\* C7: the response of a Success is returned before the store completes and
\* is the same whether the store is pending, succeeds or fails.
C7_StoreIsFireAndForget == []C7_Returned /\ [][C7_Unchanged]_vars

C7_Witness ==
  \E r \in Requests :
    /\ Req(r).pc = "done" /\ Req(r).resp.status = 200 /\ Req(r).stores = 1
    /\ \E p \in puts : p.by = r

\* the step taken when a cancelled fetch rejects is the step a network
\* failure of the same fetch would take
C8_AsNetworkFailure ==
  \A r \in Requests :
    (Req(r).pc = "fetch" /\ Req(r).aborted /\ req'[r] # Req(r)) =>
       LET n == HandlerStep(entry, Req(r), NetError).q
       IN /\ req'[r].pc = n.pc
          /\ req'[r].idx = n.idx
          /\ req'[r].resp = n.resp

C8_CancelledEnds504 ==
  \A r \in Requests :
    (Req(r).pc = "done" /\ Req(r).aborted) => Req(r).resp.status = 504

\* C8: a fetch cancelled by the deadline is handled exactly as a network
\* failure of that provider is: same next step, same final response; a
\* request that was cancelled ends 504 unless a provider succeeded.
C8_CancellationIsTransient == [][C8_AsNetworkFailure]_vars /\ []C8_CancelledEnds504

\* C9: the providers of one request are attempted one at a time, in list
\* order, provider k+1 only after provider k ended in a failure the loop
\* skips, and each at most once.
C9_Sequential ==
  \A r \in Requests :
    LET q == Req(r)
        ps == Providers(entry, q.url.path)
    IN OnChain(q) =>
         /\ Cardinality(q.inflight) <= 1
         /\ Len(q.called) <= Len(ps)
         /\ \A k \in 1..Len(q.called) : q.called[k] = UpstreamUrl(ps[k], q.url)
         /\ \A j, k \in 1..Len(q.called) : j # k => q.called[j] # q.called[k]
         /\ Len(q.outcomes) = Len(q.called) - Cardinality(q.inflight)
         /\ q.inflight \subseteq {Len(q.called)}
         /\ \A k \in 1..(Len(q.called) - 1) :
              ~GoodAnswer(q.outcomes[k]) /\ ~RejectStatus(q.outcomes[k])

C9_Witness ==
  \E r \in Requests :
    /\ Len(Req(r).called) = 2 /\ Req(r).inflight = {2}
    /\ Len(Req(r).outcomes) = 1

\* the query values that are decimal numbers, and their values
IsDecimal(s) == s \in {"10", "45", "91", "181", "-91"}
DecimalValue(s) ==
  CASE s = "10" -> 10 [] s = "45" -> 45 [] s = "91" -> 91
    [] s = "181" -> 181 [] s = "-91" -> 0 - 91 [] OTHER -> 0
Missing(s) == s = NULL \/ s = ""
BadLat(s) == Missing(s) \/ ~IsDecimal(s) \/ DecimalValue(s) < 0 - 90 \/ DecimalValue(s) > 90
BadLon(s) == Missing(s) \/ ~IsDecimal(s) \/ DecimalValue(s) < 0 - 180 \/ DecimalValue(s) > 180

CoordinateRequest(q) ==
  \/ q.url.path = "/weather"
  \/ q.url.path = "/weather/forecast" /\ entry = "handlers" /\ Missing(q.url.q)

\* C10: a lat or lon that is missing, not a number, or a number outside
\* [-90,90] / [-180,180] makes /weather and the coordinates branch of
\* /weather/forecast answer 400 before any cache lookup or upstream fetch.
C10_BadCoordinates400 ==
  \A r \in Requests :
    LET q == Req(r)
    IN (q.pc # "new" /\ CoordinateRequest(q) /\ (BadLat(q.url.lat) \/ BadLon(q.url.lon))) =>
         /\ q.pc = "done"
         /\ q.resp.status = 400
         /\ q.lookups = 0
         /\ q.called = <<>>

\* ---------------------------------------------------- /weather/forecast
ForecastRequest(q) ==
  q.pc # "new" /\ q.url.path = "/weather/forecast" /\ entry = "handlers"

Provided(s) == ~Missing(s)
ConflictingLocators(u) == Provided(u.q) /\ (Provided(u.lat) \/ Provided(u.lon))
NoLocator(u) == ~Provided(u.q) /\ ~(Provided(u.lat) /\ Provided(u.lon))

\* C11: the forecast endpoint takes exactly one locator: q together with
\* lat or lon is answered 400, and so is a request with neither q nor both
\* lat and lon; neither case calls the geocoding or the forecast service.
C11_ExactlyOneLocator ==
  \A r \in Requests :
    LET q == Req(r)
    IN (ForecastRequest(q) /\ (ConflictingLocators(q.url) \/ NoLocator(q.url))) =>
         /\ q.pc = "done"
         /\ q.resp.status = 400
         /\ q.called = <<>>

C11_Witness ==
  \E r, s \in Requests :
    /\ ForecastRequest(Req(r)) /\ ConflictingLocators(Req(r).url)
    /\ Req(r).url.q = "Prague" /\ Req(r).url.lat = "45" /\ Req(r).url.lon = "10"
    /\ Req(r).resp.status = 400
    /\ ForecastRequest(Req(s)) /\ NoLocator(Req(s).url)
    /\ Req(s).url.lat = "45" /\ Req(s).url.lon = NULL
    /\ Req(s).resp.status = 400

\* the `days` values that are numbers, and their values
DaysNumeric(s) == s \in {"0", "5", "20"}
DaysValue(s) == CASE s = "0" -> 0 [] s = "5" -> 5 [] s = "20" -> 20 [] OTHER -> 0
ForecastCalls(q) ==
  {k \in 1..Len(q.called) : q.called[k].host = "open-meteo-forecast"}

\* C12: the number of days requested upstream lies in 1..16 for every
\* `days`: a number is clamped (below 1 gives 1, above 16 gives 16), an
\* absent or non-numeric value gives the default 16.
C12_DaysClamped ==
  \A r \in Requests :
    LET q == Req(r)
        d == q.url.days
    IN ForecastRequest(q) =>
         \A k \in ForecastCalls(q) :
           LET n == q.called[k].forecast_days
           IN /\ n \in 1..16
              /\ DaysNumeric(d) =>
                    n = (IF DaysValue(d) < 1 THEN 1
                         ELSE IF DaysValue(d) > 16 THEN 16 ELSE DaysValue(d))
              /\ ~DaysNumeric(d) => n = 16

\* what the forecast request was answered by the two services
NonOkAnswer(o) == o.kind = "status" /\ ~(o.status \in 200..299)
CityNotFound(q) ==
  /\ Len(q.outcomes) = 1
  /\ q.outcomes[1].kind = "status" /\ q.outcomes[1].status \in 200..299
  /\ q.outcomes[1].doc.valid /\ q.outcomes[1].doc.value = NULL
InvalidForecastQuery(u) ==
  \/ ConflictingLocators(u)
  \/ NoLocator(u)
  \/ ~Provided(u.q) /\ (BadLat(u.lat) \/ BadLon(u.lon))

\* C13: the forecast endpoint answers 400 only for invalid or conflicting
\* parameters or a city that is not found; a non-OK answer of the geocoding
\* or of the forecast service is reported as 502.
C13_UpstreamFailureIs502 ==
  \A r \in Requests :
    LET q == Req(r)
    IN (ForecastRequest(q) /\ q.pc = "done") =>
         /\ q.resp.status = 400 => (InvalidForecastQuery(q.url) \/ CityNotFound(q))
         /\ (\E k \in 1..Len(q.outcomes) : NonOkAnswer(q.outcomes[k])) =>
              q.resp.status = 502

\* ------------------------------------------------------------ stream proxies
Handled(routes) == px.pc # "idle" /\ px.route \in routes /\ entry = "handlers"
NothingSent == px.sent = NoOutbound /\ px.answer = NoAnswer
Refused(status) == px.pc = "done" /\ px.resp.status = status /\ NothingSent
ReadMethod == px.method \in {"GET", "HEAD"}

\* what the `url` parameter of /video names, and the hosts ALLOWED_VIDEO_HOSTS
\* lists
Unparseable(t) == t = "not a url"
SchemeOf(t) ==
  CASE t = "ftp://a.example/v.mp4" -> "ftp"
    [] t = "http://a.example/v.mp4" -> "http"
    [] t \in {"HTTPS://B.Example/v.mp4", "https://c.example/v.mp4"} -> "https"
    [] OTHER -> "none"
HostOf(t) ==
  CASE t \in {"ftp://a.example/v.mp4", "http://a.example/v.mp4"} -> "a.example"
    [] t = "HTTPS://B.Example/v.mp4" -> "b.example"
    [] t = "https://c.example/v.mp4" -> "c.example"
    [] OTHER -> "none"
ConfiguredHosts(list) ==
  CASE list = "a.example" -> {"a.example"}
    [] list = " a.example ,,b.example" -> {"a.example", "b.example"}
    [] OTHER -> {}

\* the first rejection of /video that applies, 0 when none does
VideoRejection ==
  LET t == px.query.url
      hosts == ConfiguredHosts(px.env.ALLOWED_VIDEO_HOSTS)
  IN IF ~ReadMethod THEN 405
     ELSE IF Missing(t) THEN 400
     ELSE IF Unparseable(t) THEN 400
     ELSE IF ~(SchemeOf(t) \in {"http", "https"}) THEN 400
     ELSE IF hosts # {} /\ ~(HostOf(t) \in hosts) THEN 403
     ELSE 0

BridgeStreams == {"/camera/stream", "/webcam/stream"}
\* the camera identifier of a stream request: /webcam/stream takes `id` when
\* `cameraId` is absent
Identifier ==
  IF px.route = "/webcam/stream" /\ Missing(px.query.cameraId)
    THEN px.query.id ELSE px.query.cameraId

\* C15: the bridge stream proxy checks method, identifier, configuration in
\* this order: another method than GET/HEAD gives 405, GET/HEAD without an
\* identifier gives 400 even when the bridge is not configured, GET/HEAD with
\* an identifier and no BRIDGE_BASE gives 501; none makes an upstream request.
C15_StreamChecksInOrder ==
  Handled(BridgeStreams) =>
    /\ ~ReadMethod => Refused(405)
    /\ (ReadMethod /\ Missing(Identifier)) => Refused(400)
    /\ (ReadMethod /\ ~Missing(Identifier) /\ Missing(px.env.BRIDGE_BASE)) => Refused(501)

C15_Witness ==
  /\ Handled(BridgeStreams) /\ Refused(400)
  /\ px.method = "GET" /\ px.query.cameraId = NULL /\ px.env.BRIDGE_BASE = NULL

StreamProxies == {"/video"} \cup BridgeStreams
RequestAllowList == {"range", "if-range", "if-none-match", "if-modified-since"}
ResponseAllowList ==
  {"content-type", "content-length", "accept-ranges", "content-range", "etag",
   "last-modified", "date", "cache-control", "expires", "vary"}
    \cup (IF px.route = "/video" THEN {"location"} ELSE {})
Relayed == px.pc = "done" /\ px.answer.kind = "status"
\* the headers a proxy adds by itself
OwnRequestHeaders ==
  IF px.route \in BridgeStreams /\ ~Missing(px.env.BRIDGE_TOKEN)
    THEN {<<"authorization", "Bearer " \o px.env.BRIDGE_TOKEN>>} ELSE {}
OwnResponseHeaders ==
  {<<"access-control-allow-origin", "*">>, <<"accept-ranges", "bytes">>}

\* C16: on both stream proxies no inbound header other than Range, If-Range,
\* If-None-Match and If-Modified-Since is forwarded (a client's Authorization
\* or Cookie never reaches the upstream), and no upstream response header
\* outside the response allow-list (with location on /video) is relayed.
C16_HeaderAllowLists ==
  Handled(StreamProxies) =>
    /\ \A p \in px.sent.headers :
         \/ p \in px.headers /\ p[1] \in RequestAllowList
         \/ p \in OwnRequestHeaders
    /\ \A p \in px.headers :
         p[1] \in {"authorization", "cookie"} => ~(p \in px.sent.headers)
    /\ Relayed =>
         \A p \in px.resp.headers :
           \/ p \in px.answer.headers /\ p[1] \in ResponseAllowList
           \/ p \in OwnResponseHeaders

C16_Witness ==
  /\ Handled(BridgeStreams) /\ Relayed
  /\ <<"authorization", "Basic client">> \in px.headers
  /\ <<"cookie", "sid=1">> \in px.headers
  /\ <<"range", "bytes=0-99">> \in px.sent.headers
  /\ <<"set-cookie", "up=1">> \in px.answer.headers
  /\ <<"etag", "e1">> \in px.resp.headers

\* the headers of a relayed response: the allow-listed upstream headers that
\* carry a value, the CORS header, and Accept-Ranges
Carried(hs) == {p \in hs : ~Missing(p[2])}
RelayedHeaders ==
  LET kept == {p \in Carried(px.answer.headers) : p[1] \in ResponseAllowList}
  IN kept \cup {<<"access-control-allow-origin", "*">>}
          \cup (IF \E p \in kept : p[1] = "accept-ranges" THEN {}
                ELSE {<<"accept-ranges", "bytes">>})

\* C17: for every forwarded GET or HEAD the response status is the upstream
\* status (206 with Content-Range for `Range: bytes=0-99`), the forwarded
\* method is the inbound method, a HEAD response has no body and the status
\* and headers of a GET, and a GET response carries the upstream body as is.
C17_MirrorsUpstream ==
  (Handled(StreamProxies) /\ px.sent # NoOutbound) =>
    /\ px.sent.method = px.method
    /\ ReadMethod
    /\ Relayed =>
         /\ px.resp.status = px.answer.status
         /\ px.resp.headers = RelayedHeaders
         /\ px.method = "HEAD" => px.resp.body = NoBody
         /\ px.method = "GET" => px.resp.body = px.answer.body
         /\ ( /\ <<"range", "bytes=0-99">> \in px.headers
              /\ px.answer.status = 206
              /\ <<"content-range", "bytes 0-99/1000">> \in px.answer.headers )
            => /\ <<"range", "bytes=0-99">> \in px.sent.headers
               /\ px.resp.status = 206
               /\ <<"content-range", "bytes 0-99/1000">> \in px.resp.headers

C17_Witness ==
  /\ Handled({"/video"}) /\ Relayed
  /\ px.method = "HEAD"
  /\ <<"range", "bytes=0-99">> \in px.sent.headers
  /\ px.resp.status = 206
  /\ <<"content-range", "bytes 0-99/1000">> \in px.resp.headers
  /\ px.answer.body # NoBody /\ px.resp.body = NoBody

\* C18: every stream-proxy response built from an upstream answer carries
\* `Access-Control-Allow-Origin: *` and an Accept-Ranges header: the
\* upstream's value when it sent one, `bytes` when it sent none.
C18_CorsAndAcceptRanges ==
  (Handled(StreamProxies) /\ Relayed) =>
    LET sentByUpstream == HeadersGet(px.answer.headers, "accept-ranges")
    IN /\ HeadersGet(px.resp.headers, "access-control-allow-origin") = "*"
       /\ HeadersHas(px.resp.headers, "accept-ranges")
       /\ ~Missing(sentByUpstream) =>
            HeadersGet(px.resp.headers, "accept-ranges") = sentByUpstream
       /\ Missing(sentByUpstream) =>
            HeadersGet(px.resp.headers, "accept-ranges") = "bytes"

C18_Witness ==
  /\ Handled(StreamProxies) /\ Relayed
  /\ <<"accept-ranges", "none">> \in px.answer.headers
  /\ <<"accept-ranges", "none">> \in px.resp.headers
  /\ <<"access-control-allow-origin", "https://up.example">> \in px.answer.headers
  /\ <<"access-control-allow-origin", "*">> \in px.resp.headers

BridgeControls == {"/camera/ptz", "/webcam/ptz"}
PtzActions == {"up", "down", "left", "right", "stop"}
PtzBodyInvalid ==
  \/ Missing(px.body.cameraId)
  \/ Missing(px.body.action)
  \/ ~(px.body.action \in PtzActions)

CameraStreamWith(identifier) ==
  LET t0 == Exchange("/camera/stream", px.method, Query(NULL, identifier, NULL),
                     px.headers, px.body, px.env)
      t1 == handleCameraStream(t0, t0.query)
  IN IF t1.pc = "done" \/ px.answer = NoAnswer
       THEN t1 ELSE StreamRelay(t1, CameraKeep, px.answer)
\* what /camera/ptz answers to { cameraId: <identifier>, action, durationMs }
CameraPtzWith(identifier) ==
  LET t0 == Exchange("/camera/ptz", px.method, px.query, px.headers,
                     [px.body EXCEPT !.cameraId = identifier, !.id = NULL], px.env)
      t1 == handleCameraPtz(t0)
  IN IF t1.pc = "done" \/ px.answer = NoAnswer
       THEN t1 ELSE PtzRelay(t1, px.answer)
SameResult(t) ==
  px.pc = t.pc /\ px.sent = t.sent /\ px.answer = t.answer /\ px.resp = t.resp

\* C20: the webcam routes are aliases that take `id` for `cameraId`:
\* GET /webcam/stream?id=X is answered as GET /camera/stream?cameraId=X (an
\* explicit cameraId wins over id), and POST /webcam/ptz {id: X, action} as
\* POST /camera/ptz {cameraId: X, action}.
C20_WebcamAliases ==
  /\ (Handled({"/webcam/stream"}) /\ ReadMethod) =>
       SameResult(CameraStreamWith(IF Missing(px.query.cameraId)
                                     THEN px.query.id ELSE px.query.cameraId))
  /\ (Handled({"/webcam/ptz"}) /\ px.method = "POST" /\ px.body.valid
        /\ Missing(px.body.cameraId) /\ ~Missing(px.body.id)) =>
       SameResult(CameraPtzWith(px.body.id))

\* ------------------------------------------------------------ termination
\* the request passed validation and missed the cache: it went upstream
WentUpstream(q) == OnChain(q) /\ q.called # <<>>

C21_Completes ==
  \A r \in Requests : (WentUpstream(req[r]) /\ req[r].pc = "fetch") ~> (req[r].pc = "done")

C21_Outcome ==
  \A r \in Requests :
    LET q == Req(r)
    IN (WentUpstream(q) /\ q.pc = "done") =>
         /\ q.resp.status \in {200, 502, 504}
         /\ q.timer = "cleared"

\* C21: a /data or /weather request that passes validation and misses the
\* cache completes whenever each upstream fetch answers or is cancelled by
\* the deadline, with status 200, 502 or 504 and no other, whatever the
\* providers answer, and with the deadline timer cleared on every exit.
C21_ChainTerminates == C21_Completes /\ []C21_Outcome

====
